---- MODULE Spec2Model ----
(***************************************************************************)
(* Model of src/src/utils/upstoxInstrument.util.js: the in-memory          *)
(* instrument cache (instrumentCache), the refresh cycle                   *)
(* (downloadAndPopulateCache), the lookup (getUpstoxOption), and the       *)
(* startup script (main, the top-level lookup, cron.schedule).             *)
(*                                                                         *)
(* JavaScript runs every handler to completion on one thread, so each      *)
(* action below is one handler (or one job of the event loop) as a whole.  *)
(***************************************************************************)
EXTENDS Integers, Sequences, FiniteSets, TLC

(***************************************************************************)
(* Bounds of the model.                                                    *)
(***************************************************************************)
\* refresh cycles that may be in flight together (cron has no such limit)
MaxInFlight == 2
\* records in a catalog of the lookup specification
MaxLen == 3

(***************************************************************************)
(* JavaScript values.  Strings are sequences of one-letter strings so that *)
(* toUpperCase is computed letter by letter.                               *)
(***************************************************************************)
Lower == <<"a","b","c","d","e","f","g","h","i","j","k","l","m",
           "n","o","p","q","r","s","t","u","v","w","x","y","z">>
Upper == <<"A","B","C","D","E","F","G","H","I","J","K","L","M",
           "N","O","P","Q","R","S","T","U","V","W","X","Y","Z">>

\* the upper-case letter of each lower-case letter
UpperOf ==
  [c \in {Lower[i] : i \in 1..Len(Lower)} |->
     Upper[CHOOSE i \in 1..Len(Lower) : Lower[i] = c]]

UpperChar(c) == IF c \in DOMAIN UpperOf THEN UpperOf[c] ELSE c

\* String.prototype.toUpperCase
toUpperCase(s) == [i \in 1..Len(s) |-> UpperChar(s[i])]

\* the value of a property the object does not have
Undefined == <<"undefined">>

\* null: the initial cache, and what JSON.parse makes of the text null
Null == [kind |-> "null"]
\* the JSON number 0 (falsy), and a JSON object that is no array (truthy)
Zero == [kind |-> "number"]
Obj == [kind |-> "object"]
Arr(items) == [kind |-> "array", items |-> items]

\* what `if (x)` / `!x` make of a value
Truthy(v) == v.kind \in {"object", "array", "record"}

NIFTY == <<"N","I","F","T","Y">>
nifty == <<"n","i","f","t","y">>
BANKNIFTY == <<"B","A","N","K","N","I","F","T","Y">>
PE == <<"P","E">>
pe == <<"p","e">>
CE == <<"C","E">>
ce == <<"c","e">>

\* the strikes of the two lookups of the script
Strike126 == 23300
Strike151 == 24000

\* one instrument object of the payload
Rec(a, s, t, e, k) ==
  [kind |-> "record", asset_symbol |-> a, strike_price |-> s,
   instrument_type |-> t, expiry |-> e, instrument_key |-> k]

(***************************************************************************)
(* The decompressed payload is a sequence of tokens: "[" , "]" and values. *)
(* JSON.parse accepts a single value, or "[" values "]"; everything else   *)
(* (the empty text, a truncated array) is a SyntaxError.                   *)
(***************************************************************************)
LBr == [t |-> "["]
RBr == [t |-> "]"]
Val(v) == [t |-> "val", v |-> v]

JSONParse(text) ==
  IF Len(text) = 1 /\ text[1].t = "val"
  THEN [ok |-> TRUE, value |-> text[1].v]
  ELSE IF /\ Len(text) >= 2
          /\ text[1].t = "["
          /\ text[Len(text)].t = "]"
          /\ \A i \in 2..(Len(text) - 1) : text[i].t = "val"
       THEN [ok |-> TRUE,
             value |-> Arr([i \in 1..(Len(text) - 2) |-> text[i + 1].v])]
       ELSE [ok |-> FALSE, value |-> Null]

\* Buffer.concat(chunks).toString("utf8")
RECURSIVE BufferConcat(_)
BufferConcat(chunks) ==
  IF chunks = <<>> THEN <<>>
  ELSE Head(chunks) \o BufferConcat(Tail(chunks))

(***************************************************************************)
(* getUpstoxOption                                                         *)
(***************************************************************************)
Throw == [kind |-> "throw"]

\* a variant of the filter callback that compares the asset symbol as it is
MatchesCaseSensitive(instrument, assetSymbol, strikePrice, optionType) ==
  /\ instrument.asset_symbol # Undefined
  /\ instrument.asset_symbol = assetSymbol
  /\ instrument.strike_price = strikePrice
  /\ instrument.instrument_type # Undefined
  /\ toUpperCase(instrument.instrument_type) = toUpperCase(optionType)

\* the filter callback, lines 91-94
Matches(instrument, assetSymbol, strikePrice, optionType) ==
  /\ instrument.asset_symbol # Undefined
  /\ toUpperCase(instrument.asset_symbol) = toUpperCase(assetSymbol)
  /\ instrument.strike_price = strikePrice
  /\ instrument.instrument_type # Undefined
  /\ toUpperCase(instrument.instrument_type) = toUpperCase(optionType)

\* Array.prototype.filter: the matching elements, in the array's order
RECURSIVE Filter(_, _, _, _)
Filter(items, assetSymbol, strikePrice, optionType) ==
  IF items = <<>> THEN <<>>
  ELSE LET rest == Filter(Tail(items), assetSymbol, strikePrice, optionType)
       IN IF Matches(Head(items), assetSymbol, strikePrice, optionType)
          THEN <<Head(items)>> \o rest
          ELSE rest

\* a variant of the reduce callback in which the later of two records of
\* the same expiry wins
EarlierOrEqual(earliest, current) ==
  IF current.expiry <= earliest.expiry THEN current ELSE earliest

\* the reduce callback, line 103
Earlier(earliest, current) ==
  IF current.expiry < earliest.expiry THEN current ELSE earliest

\* Array.prototype.reduce without an initial value, on a non-empty array
RECURSIVE Reduce(_, _)
Reduce(acc, items) ==
  IF items = <<>> THEN acc
  ELSE Reduce(Earlier(acc, Head(items)), Tail(items))

\* reading .asset_symbol of a null element is a TypeError
FilterThrows(items) == \E i \in 1..Len(items) : items[i].kind = "null"

\* a variant of the lookup that selects the earliest expiry out of the whole
\* cache once the filter has found a match
getUpstoxOptionWholeCache(cache, assetSymbol, strikePrice, optionType) ==
  IF ~Truthy(cache) THEN Null
  ELSE IF cache.kind # "array" THEN Throw
  ELSE IF FilterThrows(cache.items) THEN Throw
  ELSE LET matchingInstruments ==
             Filter(cache.items, assetSymbol, strikePrice, optionType)
       IN IF Len(matchingInstruments) = 0 THEN Null
          ELSE Reduce(Head(cache.items), Tail(cache.items))

\* the value the call returns, or Throw
getUpstoxOption(cache, assetSymbol, strikePrice, optionType) ==
  IF ~Truthy(cache) THEN Null
  ELSE IF cache.kind # "array" THEN Throw      \* .filter is not a function
  ELSE IF FilterThrows(cache.items) THEN Throw
  ELSE LET matchingInstruments ==
             Filter(cache.items, assetSymbol, strikePrice, optionType)
       IN IF Len(matchingInstruments) = 0 THEN Null
          ELSE Reduce(Head(matchingInstruments), Tail(matchingInstruments))

(***************************************************************************)
(* Payloads the server may send (after decompression).                     *)
(***************************************************************************)
RecA == Rec(NIFTY, Strike126, PE, 2, 1)
RecB == Rec(nifty, Strike151, ce, 1, 2)
RecC == Rec(NIFTY, Strike126, pe, 1, 3)

Payloads ==
  { <<LBr, Val(RecA), Val(RecB), RBr>>,   \* a catalog
    <<LBr, Val(RecC), RBr>>,              \* another catalog
    <<LBr, Val(RecA)>>,                   \* malformed: JSON.parse throws
    <<Val(Null)>>,                        \* the JSON text null
    <<Val(Zero)>>,                        \* the JSON text 0
    <<Val(Obj)>> }                        \* the JSON text {}

(***************************************************************************)
(* State.                                                                  *)
(***************************************************************************)
VARIABLES
  instrumentCache,  \* line 13
  cycles,           \* the calls of downloadAndPopulateCache that have not
                    \* settled, oldest first
  mainPc,           \* where the script is: init, awaiting, resolved,
                    \* rejected (main's await has settled), done, crashed
  cronScheduled,    \* cron.schedule of line 154 has been called
  succeeded,        \* history: some cycle's promise has resolved
  observed,         \* history: what the step just taken did, when it was a
                    \* call of getUpstoxOption or the end of a cycle
  prior             \* history: an earlier call of getUpstoxOption since
                    \* which the cache has not been assigned

vars ==
  <<instrumentCache, cycles, mainPc, cronScheduled, succeeded, observed,
    prior>>

\* the positions of the cycles whose pipeline is alive: the promise is
\* pending, or it was rejected by lines 60-63 and gunzip lives on
InFlight == 1..Len(cycles)

Nothing == [kind |-> "none"]

\* one call of getUpstoxOption on the cache as it is now
Call(cache, a, s, t) ==
  [kind |-> "lookup", assetSymbol |-> a, strikePrice |-> s, optionType |-> t,
   ret |-> getUpstoxOption(cache, a, s, t),
   notPopulated |-> ~Truthy(cache)]

\* the sequence without its i-th element
Remove(seq, i) == SubSeq(seq, 1, i - 1) \o SubSeq(seq, i + 1, Len(seq))

\* the continuation of main after its await (lines 121-146) is queued as a
\* microtask when the startup promise settles: it runs before the handler
\* of any later event and before any other caller
MainQueued == mainPc \in {"resolved", "rejected"}

\* line 13 has run; the script goes on to main (line 150)
Init ==
  /\ instrumentCache = Null
  /\ cycles = <<>>
  /\ mainPc = "init"
  /\ cronScheduled = FALSE
  /\ succeeded = FALSE
  /\ observed = Nothing
  /\ prior = Nothing

(***************************************************************************)
(* downloadAndPopulateCache                                                *)
(***************************************************************************)
\* lines 20-27: the promise is created and axios.get is issued.  settled
\* is the state of the promise (resolve and reject of a settled promise do
\* nothing)
downloadAndPopulateCache ==
  Append(cycles,
         [status |-> "fetching", doc |-> <<>>, emitted |-> 0, chunks |-> <<>>,
          settled |-> FALSE])

\* resolve() / reject(err) of the promise of cycle i, in a handler that leaves
\* the cache at `cache` and after which no handler of the cycle runs any
\* more; when main awaits the promise (only the startup cycle is awaited),
\* main is resumed with the outcome.  On a promise that lines 60-63 have
\* rejected already, resolve and reject do nothing
Settle(i, outcome, cache) ==
  /\ instrumentCache' = cache
  /\ cycles' = Remove(cycles, i)
  /\ IF cycles[i].settled
     THEN /\ observed' = Nothing
          /\ UNCHANGED <<mainPc, succeeded>>
     ELSE /\ mainPc' = IF mainPc = "awaiting" THEN outcome ELSE mainPc
          /\ succeeded' = (succeeded \/ outcome = "resolved")
          /\ observed' = [kind |-> "settled", outcome |-> outcome]

\* line 28: the response arrives; gunzip and chunks are set up
AxiosResolve(i) ==
  /\ cycles[i].status = "fetching"
  /\ \E doc \in Payloads :
       cycles' = [cycles EXCEPT ![i].status = "streaming", ![i].doc = doc]
  /\ observed' = Nothing
  /\ UNCHANGED <<instrumentCache, mainPc, cronScheduled, succeeded>>

\* lines 65-68: axios.get rejects
AxiosReject(i) ==
  /\ cycles[i].status = "fetching"
  /\ Settle(i, "rejected", instrumentCache)
  /\ UNCHANGED cronScheduled

\* the sizes of the next chunk gunzip may emit for cycle c: zlib decides how
\* much of what is left of the payload it hands over in one 'data' event
ChunkSizes(c) == 1..(Len(c.doc) - c.emitted)

\* the next chunk of n tokens of cycle c: the payload is decompressed front
\* to back
NextChunk(c, n) == SubSeq(c.doc, c.emitted + 1, c.emitted + n)

\* a variant of the 'data' handler that loses the values of a chunk when the
\* chunks already hold a value
GunzipDataLossy(i) ==
  /\ ~MainQueued
  /\ cycles[i].status = "streaming"
  /\ cycles[i].emitted < Len(cycles[i].doc)
  /\ \E n \in ChunkSizes(cycles[i]) :
       LET chunk == NextChunk(cycles[i], n)
           NoValue(tk) == tk.t # "val"
           lost == \E k \in 1..Len(cycles[i].chunks) :
                     \E m \in 1..Len(cycles[i].chunks[k]) :
                       cycles[i].chunks[k][m].t = "val"
       IN cycles' = [cycles EXCEPT
                       ![i].emitted = @ + n,
                       ![i].chunks =
                          Append(@, IF lost THEN SelectSeq(chunk, NoValue)
                                    ELSE chunk)]
  /\ observed' = Nothing
  /\ UNCHANGED <<instrumentCache, mainPc, cronScheduled, succeeded>>

\* a variant of the 'data' handler that pushes the chunk on one array shared
\* by all the cycles that are streaming
GunzipDataShared(i) ==
  /\ ~MainQueued
  /\ cycles[i].status = "streaming"
  /\ cycles[i].emitted < Len(cycles[i].doc)
  /\ \E n \in ChunkSizes(cycles[i]) :
       LET chunk == NextChunk(cycles[i], n)
       IN cycles' =
            [k \in 1..Len(cycles) |->
               IF k = i
               THEN [cycles[k] EXCEPT !.emitted = @ + n,
                                      !.chunks = Append(@, chunk)]
               ELSE IF cycles[k].status = "streaming"
                    THEN [cycles[k] EXCEPT !.chunks = Append(@, chunk)]
                    ELSE cycles[k]]
  /\ observed' = Nothing
  /\ UNCHANGED <<instrumentCache, mainPc, cronScheduled, succeeded>>

\* lines 35-37: gunzip 'data': the chunk, of whatever size zlib emits, is
\* pushed on the cycle's chunks
GunzipData(i) ==
  /\ ~MainQueued
  /\ cycles[i].status = "streaming"
  /\ cycles[i].emitted < Len(cycles[i].doc)
  /\ \E n \in ChunkSizes(cycles[i]) :
       cycles' = [cycles EXCEPT
                    ![i].emitted = @ + n,
                    ![i].chunks = Append(@, NextChunk(cycles[i], n))]
  /\ observed' = Nothing
  /\ UNCHANGED <<instrumentCache, mainPc, cronScheduled, succeeded>>

\* lines 39-52: gunzip 'end', once the whole stream has been decompressed;
\* the handler also runs when the promise has been rejected by lines 60-63
GunzipEnd(i) ==
  /\ ~MainQueued
  /\ cycles[i].status = "streaming"
  /\ cycles[i].emitted = Len(cycles[i].doc)
  /\ LET data == BufferConcat(cycles[i].chunks)
         parsed == JSONParse(data)
     IN IF parsed.ok
        THEN \* line 43 assigns the cache; line 45 reads
             \* instrumentCache.length, which throws when it is null
             Settle(i, IF parsed.value = Null
                       THEN "rejected" ELSE "resolved", parsed.value)
        ELSE Settle(i, "rejected", instrumentCache)
  /\ UNCHANGED cronScheduled

\* lines 55-58: gunzip 'error' (corrupt or truncated compressed stream),
\* also after lines 60-63 have rejected the promise
GunzipError(i) ==
  /\ ~MainQueued
  /\ cycles[i].status = "streaming"
  /\ Settle(i, "rejected", instrumentCache)
  /\ UNCHANGED cronScheduled

\* lines 60-63: response.data 'error': the handler logs and rejects; it
\* does not destroy gunzip, whose handlers stay.  When the download had
\* handed the whole gzip member and a byte after it to gunzip (late), gunzip
\* goes on to emit its 'data' and then its 'end'; otherwise gunzip gets no
\* more input and no end, and no handler of the cycle that touches the
\* cache or the promise runs any more
DownloadError(i) ==
  /\ cycles[i].status = "streaming"
  /\ ~cycles[i].settled
  /\ \E late \in BOOLEAN :
       IF late
       THEN /\ cycles' = [cycles EXCEPT ![i].settled = TRUE]
            /\ mainPc' = IF mainPc = "awaiting" THEN "rejected" ELSE mainPc
            /\ observed' = [kind |-> "settled", outcome |-> "rejected"]
            /\ UNCHANGED <<instrumentCache, succeeded>>
       ELSE Settle(i, "rejected", instrumentCache)
  /\ UNCHANGED cronScheduled

(***************************************************************************)
(* The script: main, the top-level lookup, cron.schedule                   *)
(***************************************************************************)
\* lines 151-158: the lookup after main; an exception here ends the script
\* before cron.schedule is reached
AfterMain ==
  /\ observed' = Call(instrumentCache, NIFTY, Strike151, CE)
  /\ mainPc' = IF observed'.ret = Throw THEN "crashed" ELSE "done"
  /\ cronScheduled' = (observed'.ret # Throw)

\* lines 113-120: main up to its await
MainStart ==
  /\ mainPc = "init"
  /\ IF Truthy(instrumentCache)
     THEN /\ AfterMain
          /\ UNCHANGED cycles
     ELSE /\ cycles' = downloadAndPopulateCache
          /\ mainPc' = "awaiting"
          /\ observed' = Nothing
          /\ UNCHANGED cronScheduled
  /\ UNCHANGED <<instrumentCache, succeeded>>

\* lines 121-146 and 150-158: main resumes when the startup cycle has
\* settled (its lookup of line 126 is inside the try), then the script goes on
MainResume ==
  /\ mainPc \in {"resolved", "rejected"}
  /\ AfterMain
  /\ UNCHANGED <<instrumentCache, cycles, succeeded>>

\* lines 154-165: the daily trigger starts a cycle, whatever else is running
CronTrigger ==
  /\ cronScheduled
  /\ Len(cycles) < MaxInFlight
  /\ cycles' = downloadAndPopulateCache
  /\ observed' = Nothing
  /\ UNCHANGED <<instrumentCache, mainPc, cronScheduled, succeeded>>

(***************************************************************************)
(* A caller of the exported getUpstoxOption                                *)
(***************************************************************************)
Symbols == {NIFTY, nifty}
Strikes == {Strike126, Strike151}
OptionTypes == {PE, pe, CE}
Queries == Symbols \X Strikes \X OptionTypes

\* the queries of the running program: the calls of line 126 and line 151
CallerQueries == {<<NIFTY, Strike126, PE>>, <<NIFTY, Strike151, CE>>}

\* a variant of the lookup that takes the record it returns out of the cache
LookupConsuming(qs) ==
  /\ mainPc \notin {"init", "crashed"}
  /\ ~MainQueued
  /\ \E q \in qs :
       /\ observed' = Call(instrumentCache, q[1], q[2], q[3])
       /\ instrumentCache' =
            IF observed'.ret.kind = "record"
            THEN Arr(Remove(instrumentCache.items,
                            CHOOSE j \in 1..Len(instrumentCache.items) :
                              instrumentCache.items[j] = observed'.ret))
            ELSE instrumentCache
  /\ UNCHANGED <<cycles, mainPc, cronScheduled, succeeded>>

\* lines 81-107, called by a caller while the program runs: the script runs
\* from line 13 to the await of line 120 without a break, so that no call
\* comes before main awaits; none comes after the script has crashed
Lookup(qs) ==
  /\ mainPc \notin {"init", "crashed"}
  /\ ~MainQueued
  /\ \E q \in qs : observed' = Call(instrumentCache, q[1], q[2], q[3])
  /\ UNCHANGED <<instrumentCache, cycles, mainPc, cronScheduled, succeeded>>

Next ==
  \/ MainStart /\ UNCHANGED prior
  \/ MainResume /\ UNCHANGED prior
  \/ CronTrigger /\ UNCHANGED prior
  \/ Lookup(CallerQueries) /\ UNCHANGED prior
  \/ \E i \in InFlight : AxiosResolve(i) /\ UNCHANGED prior
  \/ \E i \in InFlight : AxiosReject(i) /\ UNCHANGED prior
  \/ \E i \in InFlight : GunzipData(i) /\ UNCHANGED prior
  \/ \E i \in InFlight : GunzipEnd(i) /\ UNCHANGED prior
  \/ \E i \in InFlight : GunzipError(i) /\ UNCHANGED prior
  \/ \E i \in InFlight : DownloadError(i) /\ UNCHANGED prior

Spec == Init /\ [][Next]_vars

(***************************************************************************)
(* The same program with the history of calls kept: prior is a call made   *)
(* earlier, kept as long as line 43 has not assigned the cache since.      *)
(* Its phase tells whether other steps have been taken since the call      *)
(* (between) and whether the call has then been made again (again).        *)
(***************************************************************************)
\* calls a and b have the same arguments
SameCall(a, b) ==
  /\ a.assetSymbol = b.assetSymbol
  /\ a.strikePrice = b.strikePrice
  /\ a.optionType = b.optionType

\* the history after a step that has moved prior from phase "first" on
Between(pr) ==
  IF pr.kind = "call" /\ pr.phase = "first"
  THEN [pr EXCEPT !.phase = "between"] ELSE pr

\* the history after a step that is no call by a caller and does not reach
\* line 43
Track == prior' = Between(prior)

\* the history after the 'end' handler of cycle i: when JSON.parse returns,
\* line 43 assigns the cache (a new value, also when it equals the old one),
\* which ends the history
TrackEnd(i) ==
  prior' = IF JSONParse(BufferConcat(cycles[i].chunks)).ok THEN Nothing
           ELSE Between(prior)

\* a caller's call of getUpstoxOption, with the history kept: any call may
\* become the one that is remembered
TrackedLookup ==
  /\ Lookup(CallerQueries)
  /\ \/ prior' = [kind |-> "call", call |-> observed', phase |-> "first"]
     \/ /\ prior.kind = "call"
        /\ prior' = IF ~SameCall(prior.call, observed') THEN Between(prior)
                    ELSE IF prior.phase = "first" THEN prior
                    ELSE [prior EXCEPT !.phase = "again"]

CallNext ==
  \/ MainStart /\ Track
  \/ MainResume /\ Track
  \/ CronTrigger /\ Track
  \/ TrackedLookup
  \/ \E i \in InFlight : AxiosResolve(i) /\ Track
  \/ \E i \in InFlight : AxiosReject(i) /\ Track
  \/ \E i \in InFlight : GunzipData(i) /\ Track
  \/ \E i \in InFlight : GunzipEnd(i) /\ TrackEnd(i)
  \/ \E i \in InFlight : GunzipError(i) /\ Track
  \/ \E i \in InFlight : DownloadError(i) /\ Track

CallSpec == Init /\ [][CallNext]_vars

(***************************************************************************)
(* The lookup on its own: any catalog of up to MaxLen instruments is the   *)
(* cache after a startup whose cycle delivered it, and callers look up     *)
(* any query.                                                              *)
(***************************************************************************)
\* asset_symbol, strike_price, instrument_type, expiry of the instruments
LookupRecs ==
  { <<NIFTY, Strike126, PE, 1>>,
    <<NIFTY, Strike126, PE, 2>>,
    <<nifty, Strike126, pe, 1>>,
    <<NIFTY, Strike151, PE, 1>>,
    <<NIFTY, Strike126, CE, 1>>,
    <<BANKNIFTY, Strike126, PE, 1>>,
    <<Undefined, Strike126, PE, 1>>,
    <<NIFTY, Strike126, Undefined, 1>> }

\* the catalog of the given instruments; instrument_key is the position
Catalog(rs) ==
  Arr([j \in 1..Len(rs) |-> Rec(rs[j][1], rs[j][2], rs[j][3], rs[j][4], j)])

Catalogs ==
  { Catalog(rs) : rs \in UNION { [1..n -> LookupRecs] : n \in 0..MaxLen } }

LookupInit ==
  /\ instrumentCache \in Catalogs
  /\ cycles = <<>>
  /\ mainPc = "done"
  /\ cronScheduled = TRUE
  /\ succeeded = TRUE
  /\ observed = Call(instrumentCache, NIFTY, Strike151, CE)
  /\ prior = Nothing

LookupNext == Lookup(Queries) /\ UNCHANGED prior

LookupSpec == LookupInit /\ [][LookupNext]_vars

(***************************************************************************)
(* Vocabulary of the properties.                                           *)
(***************************************************************************)
\* the same letter, whatever the case
SameLetter(c, d) ==
  \/ c = d
  \/ \E k \in 1..Len(Lower) : {c, d} = {Lower[k], Upper[k]}

\* a field that is present and equals the queried string ignoring case
EqualIgnoringCase(field, queried) ==
  /\ field # Undefined
  /\ Len(field) = Len(queried)
  /\ \A k \in 1..Len(field) : SameLetter(field[k], queried[k])

\* the catalog is an array of instruments
Populated(cache) == cache.kind = "array"

\* the positions of the catalog whose record satisfies the query of call ob
MatchingPositions(cache, ob) ==
  { j \in 1..Len(cache.items) :
      /\ EqualIgnoringCase(cache.items[j].asset_symbol, ob.assetSymbol)
      /\ cache.items[j].strike_price = ob.strikePrice
      /\ EqualIgnoringCase(cache.items[j].instrument_type, ob.optionType) }

\* position j has the earliest expiry of the positions M, and is the first
\* in catalog order of those that have it
EarliestFirst(cache, M, j) ==
  /\ j \in M
  /\ \A k \in M :
       /\ cache.items[j].expiry <= cache.items[k].expiry
       /\ cache.items[k].expiry = cache.items[j].expiry => j <= k

\* the cycles of cs whose promise is pending
Pending(cs) == {i \in 1..Len(cs) : ~cs[i].settled}

\* what this step does to cycle i: it leaves the cycles in flight
Ends(i) ==
  /\ i \in InFlight
  /\ Len(cycles') < Len(cycles)
  /\ cycles' = Remove(cycles, i)

(***************************************************************************)
(* The claims.                                                             *)
(***************************************************************************)

\* C1: at most one refresh cycle runs at a time: the cycles that have
\* started and not yet settled are never more than one.
C1_AtMostOneCycle ==
  Cardinality(Pending(cycles)) <= 1

\* C2: a failed refresh never replaces a good catalog by nothing: when the
\* store holds a populated catalog, the step in which a cycle's promise
\* rejects leaves the store populated.
C2_FailedRefreshPreserves ==
  [][\A i \in InFlight :
       ( /\ Ends(i)
         /\ observed'.kind = "settled"
         /\ observed'.outcome = "rejected"
         /\ Truthy(instrumentCache) )
       => Truthy(instrumentCache')]_vars

\* C3: a lookup on a populated catalog without a matching record returns a
\* value that differs from what the same call returns before any refresh
\* (when the cache is still null).
C3_NotReadyDistinctFromNone ==
  ( /\ observed.kind = "lookup"
    /\ Populated(instrumentCache)
    /\ MatchingPositions(instrumentCache, observed) = {} )
  => observed.ret #
       getUpstoxOption(Null, observed.assetSymbol, observed.strikePrice,
                       observed.optionType)

\* C4: the active catalog starts as none, and changes only in the step in
\* which a cycle whose whole payload has been decompressed finishes parsing
\* it, to the complete parsed payload of that cycle; so it is never the
\* data of a cycle still in flight or of a part of a payload.
C4_CompleteCatalogOnly ==
  /\ instrumentCache = Null
  /\ [][instrumentCache' # instrumentCache =>
          \E i \in InFlight :
            /\ Ends(i)
            /\ cycles[i].status = "streaming"
            /\ cycles[i].emitted = Len(cycles[i].doc)
            /\ JSONParse(cycles[i].doc).ok
            /\ instrumentCache' = JSONParse(cycles[i].doc).value]_vars

\* C4, its case: a catalog is active while another cycle, whose payload
\* parses to a different one, has decompressed only a part of it.
C4_Witness ==
  /\ Populated(instrumentCache)
  /\ \E i \in InFlight :
       /\ cycles[i].status = "streaming"
       /\ 0 < cycles[i].emitted
       /\ cycles[i].emitted < Len(cycles[i].doc)
       /\ JSONParse(cycles[i].doc).ok
       /\ JSONParse(cycles[i].doc).value # instrumentCache

\* C5: a trigger that fires while a cycle is running has no effect on the
\* active catalog: a cycle that changes it was not started while a cycle
\* that is still pending was running (cycles are kept oldest first).
C5_SecondTriggerInstallsNothing ==
  [][instrumentCache' # instrumentCache =>
       \E i \in InFlight :
         Ends(i) /\ \A j \in 1..(i - 1) : cycles[j].settled]_vars

\* C6: when records of the active catalog match the query, the lookup
\* returns the matching record of the earliest expiry, the first in catalog
\* order of those that share it.
C6_EarliestExpiryFirstInOrder ==
  ( /\ observed.kind = "lookup"
    /\ Populated(instrumentCache)
    /\ MatchingPositions(instrumentCache, observed) # {} )
  => \E j \in MatchingPositions(instrumentCache, observed) :
       /\ EarliestFirst(instrumentCache,
                        MatchingPositions(instrumentCache, observed), j)
       /\ observed.ret = instrumentCache.items[j]

\* C6, its case: three matching records, the first and the last of the same
\* earliest expiry and the middle one later; the lookup returned the first.
C6_Witness ==
  /\ observed.kind = "lookup"
  /\ Populated(instrumentCache)
  /\ Len(instrumentCache.items) = 3
  /\ MatchingPositions(instrumentCache, observed) = {1, 2, 3}
  /\ instrumentCache.items[1].expiry = instrumentCache.items[3].expiry
  /\ instrumentCache.items[1].expiry < instrumentCache.items[2].expiry
  /\ observed.ret = instrumentCache.items[1]

\* C7: on a populated catalog the lookup returns a record only if it is a
\* record of the catalog whose asset symbol and instrument type equal the
\* queried ones ignoring case and whose strike equals the queried strike,
\* and it returns none exactly when the catalog has no such record.
C7_FilterCorrect ==
  ( /\ observed.kind = "lookup"
    /\ Populated(instrumentCache) )
  => /\ observed.ret.kind \in {"record", "null"}
     /\ observed.ret.kind = "record" =>
          \E j \in MatchingPositions(instrumentCache, observed) :
            observed.ret = instrumentCache.items[j]
     /\ observed.ret = Null <=>
          MatchingPositions(instrumentCache, observed) = {}

\* C7, its case: the lookup returned a record whose asset symbol and
\* instrument type differ in case from the queried ones, out of a catalog
\* that also holds records that do not match.
C7_Witness ==
  /\ observed.kind = "lookup"
  /\ Populated(instrumentCache)
  /\ observed.ret.kind = "record"
  /\ observed.ret.asset_symbol # observed.assetSymbol
  /\ observed.ret.instrument_type # observed.optionType
  /\ Cardinality(MatchingPositions(instrumentCache, observed))
       < Len(instrumentCache.items)

\* C8: a lookup made while a refresh cycle is in flight is answered from the
\* catalog that was active before that cycle: as long as a cycle stays in
\* flight, the answer to every query stays what it was.
C8_AnsweredFromCatalogBeforeCycle ==
  [][(Pending(cycles) # {} /\ Pending(cycles') # {}) =>
       \A q \in Queries :
         getUpstoxOption(instrumentCache', q[1], q[2], q[3])
           = getUpstoxOption(instrumentCache, q[1], q[2], q[3])]_vars

\* the result of call ob is the selection out of the filter of catalog c, or
\* the not-populated outcome of c
FromOneCatalog(c, ob) ==
  IF ~Truthy(c) THEN ob.ret = Null /\ ob.notPopulated
  ELSE /\ Populated(c)
       /\ ~ob.notPopulated
       /\ IF MatchingPositions(c, ob) = {}
          THEN ob.ret = Null
          ELSE \E j \in MatchingPositions(c, ob) :
                 /\ EarliestFirst(c, MatchingPositions(c, ob), j)
                 /\ ob.ret = c.items[j]

\* C9: a lookup that returns computes its filter and its earliest-expiry
\* selection over one single catalog, the one before or the one after the
\* step, and the step of a lookup is never the step of a swap.
C9_LookupOverOneCatalog ==
  [][(observed'.kind = "lookup" /\ observed'.ret # Throw) =>
       /\ instrumentCache' = instrumentCache
       /\ \E c \in {instrumentCache, instrumentCache'} :
            FromOneCatalog(c, observed')]_vars

\* C9, its case: a lookup has just returned a record of the active catalog
\* while a cycle that has decompressed the whole of another catalog is
\* about to swap it in.
C9_Witness ==
  /\ observed.kind = "lookup"
  /\ observed.ret.kind = "record"
  /\ Populated(instrumentCache)
  /\ \E i \in InFlight :
       /\ cycles[i].status = "streaming"
       /\ cycles[i].emitted = Len(cycles[i].doc)
       /\ JSONParse(cycles[i].doc).ok
       /\ Populated(JSONParse(cycles[i].doc).value)
       /\ JSONParse(cycles[i].doc).value # instrumentCache

\* C10: whatever the outcome of the startup cycle, once it has settled the
\* script goes on to register the daily schedule: the script never ends
\* without cron.schedule having been called.
C10_StartupRegistersSchedule ==
  mainPc \in {"done", "crashed"} => cronScheduled

\* C11: a lookup never throws: whatever store the refresh cycles have left,
\* getUpstoxOption returns a record, none or the not-populated outcome.
C11_LookupNeverThrows ==
  observed.kind = "lookup" => observed.ret # Throw

\* the step is cycle i failing with a network error (axios.get rejects, or
\* the download stream errors), a decompression error or a parse error
FailsWithError(i) ==
  \/ AxiosReject(i)
  \/ DownloadError(i)
  \/ GunzipError(i)
  \/ GunzipEnd(i) /\ ~JSONParse(BufferConcat(cycles[i].chunks)).ok

\* C12: a network, decompression or parse error of a cycle rejects that
\* cycle's promise and aborts that cycle and only it: the cache, the other
\* cycles and the schedule stay as they are, the process does not crash,
\* and the cycle that was rejected does not change the cache later; the
\* rejection of the startup cycle is caught by main, after which the script
\* goes on and registers the schedule; the rejection of a scheduled cycle
\* leaves the schedule registered and a later trigger able to start a cycle.
C12_RefreshErrorsAreLocal ==
  [][/\ \A i \in InFlight :
          (FailsWithError(i) /\ ~cycles[i].settled) =>
            /\ observed' = [kind |-> "settled", outcome |-> "rejected"]
            /\ instrumentCache' = instrumentCache
            /\ cycles' \in {Remove(cycles, i),
                           [cycles EXCEPT ![i].settled = TRUE]}
            /\ cronScheduled' = cronScheduled
            /\ mainPc' # "crashed"
            /\ mainPc = "awaiting" => mainPc' = "rejected"
            /\ mainPc # "awaiting" =>
                 /\ mainPc' = mainPc
                 /\ cronScheduled'
                 /\ Len(cycles') < MaxInFlight
     /\ \A i \in InFlight :
          (cycles[i].settled /\ Ends(i)) =>
            instrumentCache' = instrumentCache
     /\ (mainPc = "rejected" /\ mainPc' # mainPc) =>
          /\ mainPc' = "done"
          /\ cronScheduled']_vars

\* C13: a lookup changes neither the cache nor the cycles in flight, and it
\* does not unregister the schedule (the script's own lookup of line 151 is
\* the step that goes on to register it); and a call returns what any
\* earlier call with the same arguments returned, whatever steps were taken
\* between the two, when the cache was not assigned between them.
C13_IdempotentLookup ==
  [][observed'.kind = "lookup" =>
       /\ UNCHANGED <<instrumentCache, cycles>>
       /\ cronScheduled => cronScheduled'
       /\ mainPc' = mainPc => cronScheduled' = cronScheduled
       /\ (prior.kind = "call" /\ SameCall(prior.call, observed'))
          => /\ observed'.ret = prior.call.ret
             /\ observed'.notPopulated = prior.call.notPopulated]_vars

\* C13, its case: a call returned a record; then other steps were taken,
\* none of which assigned the cache; then the call was made again with the
\* same arguments, while a scheduled cycle is streaming.
C13_Witness ==
  /\ prior.kind = "call"
  /\ prior.phase = "again"
  /\ prior.call.ret.kind = "record"
  /\ observed = prior.call
  /\ cronScheduled
  /\ \E i \in InFlight : cycles[i].status = "streaming"

\* C14: as long as no cycle has completed successfully, every lookup takes
\* the not-populated branch and returns null.
C14_NotReadyUntilFirstSuccess ==
  (~succeeded /\ observed.kind = "lookup")
  => observed.notPopulated /\ observed.ret = Null

\* C15: when the startup cycle has failed the script still registers the
\* schedule; a daily trigger starts a new cycle from its fetch; and when,
\* no cycle having succeeded so far, such a scheduled cycle succeeds, the
\* store is populated with the parse of its payload.
C15_NextTriggerRetries ==
  [][/\ (mainPc = "rejected" /\ mainPc' # mainPc) => cronScheduled'
     /\ CronTrigger =>
          /\ Len(cycles') = Len(cycles) + 1
          /\ cycles'[Len(cycles')].status = "fetching"
     /\ \A i \in InFlight :
          ( /\ mainPc = "done"
            /\ ~succeeded
            /\ Ends(i)
            /\ observed' = [kind |-> "settled", outcome |-> "resolved"] )
          => /\ Truthy(instrumentCache')
             /\ instrumentCache' = JSONParse(cycles[i].doc).value]_vars

\* C16: the active catalog becomes the parsed payload of a cycle in the step
\* in which that cycle completes successfully, and changes in no other step.
C16_LastRefreshWins ==
  [][/\ \A i \in InFlight :
          ( /\ Ends(i)
            /\ observed' = [kind |-> "settled", outcome |-> "resolved"] )
          => instrumentCache' = JSONParse(cycles[i].doc).value
     /\ instrumentCache' # instrumentCache =>
          observed' = [kind |-> "settled", outcome |-> "resolved"]]_vars

\* C17: when a cycle has just resolved, the lookup does not take the
\* not-populated branch; and once it does not take it, no later step brings
\* the store back to where it does.
C17_SuccessPopulatesForGood ==
  /\ [](observed = [kind |-> "settled", outcome |-> "resolved"]
          => Truthy(instrumentCache))
  /\ [][Truthy(instrumentCache) => Truthy(instrumentCache')]_vars

\* C18: the chunks a cycle has accumulated are, joined in their order, the
\* tokens its own stream has decompressed so far, however gunzip has cut
\* them into chunks and whatever other cycles are doing; and the catalog a
\* cycle installs is the parse of the payload of its own stream.
C18_OwnChunksOnly ==
  /\ [](\A i \in InFlight :
          BufferConcat(cycles[i].chunks)
            = SubSeq(cycles[i].doc, 1, cycles[i].emitted))
  /\ [][\A i \in InFlight :
          (Ends(i) /\ instrumentCache' # instrumentCache)
          => instrumentCache' = JSONParse(cycles[i].doc).value]_vars

\* C18, its case: two cycles overlap, both streaming different payloads
\* that parse, each with a part of its payload decompressed, in chunks of
\* different sizes.
C18_Witness ==
  /\ Len(cycles) = 2
  /\ \A i \in {1, 2} :
       /\ cycles[i].status = "streaming"
       /\ ~cycles[i].settled
       /\ JSONParse(cycles[i].doc).ok
       /\ 0 < cycles[i].emitted
       /\ cycles[i].emitted < Len(cycles[i].doc)
  /\ cycles[1].doc # cycles[2].doc
  /\ Len(cycles[1].chunks) = 2
  /\ Len(cycles[1].chunks[1]) # Len(cycles[1].chunks[2])
  /\ Len(cycles[2].chunks) = 1

====
